---------------------------- MODULE Spec2Model ----------------------------
(***************************************************************************)
(* Tour request processor (src/main.py): the TourProcessor singleton, its  *)
(* extract_data parser, its Google Sheets collaborators and the Flask      *)
(* routes that drive them from concurrent request threads.                 *)
(*                                                                         *)
(* A Python str is a sequence of one-character strings, a Python dict is a *)
(* function whose domain is its key set, a Python list is a sequence.      *)
(***************************************************************************)
EXTENDS Integers, Sequences, FiniteSets, TLC

(***************************************************************************)
(* Bounds of the model.                                                    *)
(***************************************************************************)
\* number of blocks (one or more input lines each) joined into an input text
MaxBlocks == 3
\* rows a spreadsheet can hold before the model stops appending to it
MaxRows == 2

(***************************************************************************)
(* Python str / list / dict primitives used by the source.                 *)
(***************************************************************************)
\* characters removed by str.strip() with no argument
Whitespace == {" ", "\t", "\n", "\r"}

Range(s) == {s[k] : k \in DOMAIN s}

RECURSIVE lstrip(_)
lstrip(s) ==
    IF s = <<>> THEN <<>>
    ELSE IF Head(s) \in Whitespace THEN lstrip(Tail(s)) ELSE s

RECURSIVE rstrip(_)
rstrip(s) ==
    IF s = <<>> THEN <<>>
    ELSE IF s[Len(s)] \in Whitespace THEN rstrip(SubSeq(s, 1, Len(s) - 1)) ELSE s

\* str.strip()
strip(s) == rstrip(lstrip(s))

\* str.find(c) + 1 for a one-character c: position of the first c, 0 when absent
find(s, c) ==
    IF c \in Range(s) THEN CHOOSE p \in DOMAIN s : s[p] = c /\ \A q \in 1..(p - 1) : s[q] # c
    ELSE 0

\* str.split(c): every occurrence of c separates, the result is never empty
RECURSIVE split(_, _)
split(s, c) ==
    LET p == find(s, c)
    IN  IF p = 0 THEN <<s>>
        ELSE <<SubSeq(s, 1, p - 1)>> \o split(SubSeq(s, p + 1, Len(s)), c)

\* str.rsplit(c, 1): at most one split, at the last occurrence of c
rsplit1(s, c) ==
    IF c \in Range(s)
    THEN LET p == CHOOSE q \in DOMAIN s : s[q] = c /\ \A r \in (q + 1)..Len(s) : s[r] # c
         IN  <<SubSeq(s, 1, p - 1), SubSeq(s, p + 1, Len(s))>>
    ELSE <<s>>

\* str.split(c, 1): at most one split, at the first occurrence of c
split1(s, c) ==
    LET p == find(s, c)
    IN  IF p = 0 THEN <<s>>
        ELSE <<SubSeq(s, 1, p - 1), SubSeq(s, p + 1, Len(s))>>

\* str.startswith(prefix)
startswith(s, prefix) ==
    Len(s) >= Len(prefix) /\ SubSeq(s, 1, Len(prefix)) = prefix

\* str.replace(old, new): every non-overlapping occurrence, left to right
RECURSIVE replace(_, _, _)
replace(s, old, new) ==
    IF s = <<>> THEN <<>>
    ELSE IF startswith(s, old)
         THEN new \o replace(SubSeq(s, Len(old) + 1, Len(s)), old, new)
         ELSE <<Head(s)>> \o replace(Tail(s), old, new)

\* sep.join(parts)
RECURSIVE join(_, _)
join(sep, parts) ==
    IF parts = <<>> THEN <<>>
    ELSE IF Len(parts) = 1 THEN parts[1]
    ELSE parts[1] \o sep \o join(sep, Tail(parts))

\* {} and d[k] = v
EmptyDict == [k \in {} |-> <<>>]
DictSet(d, k, v) == [x \in (DOMAIN d) \cup {k} |-> IF x = k THEN v ELSE d[x]]
\* d.get(k, '')
get(d, k) == IF k \in DOMAIN d THEN d[k] ELSE <<>>

(***************************************************************************)
(* String literals of the source.                                          *)
(***************************************************************************)
NamePrefix == <<"N","a","m","e",":">>
ValuePrefix == <<"V","a","l","u","e",":">>
TourRequestedDate == <<"T","o","u","r"," ","R","e","q","u","e","s","t","e","d"," ","D","a","t","e">>
WhiteHouseDate1 == <<"W","h","i","t","e"," ","H","o","u","s","e"," ","D","a","t","e"," ","1">>
WhiteHouseDate3 == <<"W","h","i","t","e"," ","H","o","u","s","e"," ","D","a","t","e"," ","3">>
ToursRequested == <<"T","o","u","r","s"," ","R","e","q","u","e","s","t","e","d">>
NameOfVisitors == <<"N","a","m","e"," ","o","f"," ","V","i","s","i","t","o","r","s">>
Channel == <<"C","h","a","n","n","e","l">>
TotalPeople == <<"T","o","t","a","l"," ","N","u","m","b","e","r"," ","o","f"," ","P","e","o","p","l","e"," ","i","n"," ","P","a","r","t","y">>
FirstName == <<"F","i","r","s","t","N","a","m","e">>
LastName == <<"L","a","s","t","N","a","m","e">>
EmailAddress == <<"E","m","a","i","l","A","d","d","r","e","s","s">>
PhoneNumber == <<"P","h","o","n","e","N","u","m","b","e","r">>
AddressFields == <<<<"A","d","d","r","e","s","s","1">>, <<"A","d","d","r","e","s","s","2">>, <<"C","i","t","y">>, <<"S","t","a","t","e">>, <<"Z","i","p","C","o","d","e">>>>
\* headers, main.py lines 149-152
Headers == <<<<"N","a","m","e">>, <<"E","m","a","i","l">>, <<"P","h","o","n","e"," ","N","u","m","b","e","r">>, <<"D","a","t","e","s"," ","R","e","q","u","e","s","t","e","d">>, <<"P","a","r","t","y"," ","O","f">>, <<"R","S","V","P"," ","L","i","n","k">>, <<"U","n","a","b","l","e">>, <<"C","o","m","m","e","n","t","s">>>>

(***************************************************************************)
(* extract_data, main.py lines 69-132: the pure parts.                     *)
(***************************************************************************)
\* line 71: [line.strip() for line in raw_data.split('\n') if line.strip()]
RECURSIVE StripNonEmpty(_)
StripNonEmpty(ls) ==
    IF ls = <<>> THEN <<>>
    ELSE IF strip(Head(ls)) # <<>>
         THEN <<strip(Head(ls))>> \o StripNonEmpty(Tail(ls))
         ELSE StripNonEmpty(Tail(ls))

SplitLines(text) == StripNonEmpty(split(text, "\n"))

\* lines 76-80: one iteration of the basic-field loop
ParseLine(d, line) ==
    IF ":" \in Range(line)
    THEN LET parts == split1(line, ":")
         IN  IF Len(parts) = 2 THEN DictSet(d, strip(parts[1]), strip(parts[2])) ELSE d
    ELSE d

\* lines 72-80: data = {} then the loop over lines
RECURSIVE ParseBasicFields(_, _)
ParseBasicFields(ls, d) ==
    IF ls = <<>> THEN d ELSE ParseBasicFields(Tail(ls), ParseLine(d, Head(ls)))

\* line 86 without its test of the following line
IsPairAtNoValueCheck(ls, k) ==
    /\ startswith(ls[k + 1], NamePrefix)
    /\ k + 1 < Len(ls)

\* line 86: the test of the scan loop at Python index k (lines[k] is ls[k + 1])
IsPairAt(ls, k) ==
    /\ startswith(ls[k + 1], NamePrefix)
    /\ k + 1 < Len(ls)
    /\ startswith(ls[k + 2], ValuePrefix)

\* lines 87-88
PairName(line) == strip(replace(line, NamePrefix, <<>>))
PairValue(line) == strip(replace(line, ValuePrefix, <<>>))

\* lines 95-102 with the date range preferred to 'Tour Requested Date'
DateRequestedRangeFirst(nvp) ==
    LET date_requested == get(nvp, TourRequestedDate)
        date1 == get(nvp, WhiteHouseDate1)
        date3 == get(nvp, WhiteHouseDate3)
    IN  IF date1 # <<>> /\ date3 # <<>> THEN date1 \o <<" ","-"," ">> \o date3
        ELSE IF date_requested # <<>> THEN date_requested
        ELSE IF date1 # <<>> THEN date1
        ELSE date_requested

\* lines 95-102
DateRequested(nvp) ==
    LET date_requested == get(nvp, TourRequestedDate)
        date1 == get(nvp, WhiteHouseDate1)
        date3 == get(nvp, WhiteHouseDate3)
    IN  IF date_requested # <<>> THEN date_requested
        ELSE IF date1 # <<>> /\ date3 # <<>> THEN date1 \o <<" ","-"," ">> \o date3
        ELSE IF date1 # <<>> THEN date1
        ELSE date_requested

\* lines 114-117
RECURSIVE AddressParts(_, _)
AddressParts(d, fields) ==
    IF fields = <<>> THEN <<>>
    ELSE (IF get(d, Head(fields)) # <<>> THEN <<d[Head(fields)]>> ELSE <<>>)
         \o AddressParts(d, Tail(fields))

\* lines 105-119 with the Channel segment appended before the Visitors segment
CommentsPartsChannelFirst(d, nvp) ==
    LET tour == IF get(nvp, ToursRequested) # <<>>
                THEN <<<<"T","o","u","r",":"," ">> \o nvp[ToursRequested]>> ELSE <<>>
        visitors == IF get(nvp, NameOfVisitors) # <<>>
                    THEN <<<<"V","i","s","i","t","o","r","s",":"," ">> \o nvp[NameOfVisitors]>> ELSE <<>>
        channel == IF get(nvp, Channel) # <<>>
                   THEN <<<<"C","h","a","n","n","e","l",":"," ">> \o nvp[Channel]>> ELSE <<>>
        address_parts == AddressParts(d, AddressFields)
        address == IF address_parts # <<>>
                   THEN <<<<"A","d","d","r","e","s","s",":"," ">> \o join(<<","," ">>, address_parts)>> ELSE <<>>
    IN  tour \o channel \o visitors \o address

\* lines 105-119
CommentsParts(d, nvp) ==
    LET tour == IF get(nvp, ToursRequested) # <<>>
                THEN <<<<"T","o","u","r",":"," ">> \o nvp[ToursRequested]>> ELSE <<>>
        visitors == IF get(nvp, NameOfVisitors) # <<>>
                    THEN <<<<"V","i","s","i","t","o","r","s",":"," ">> \o nvp[NameOfVisitors]>> ELSE <<>>
        channel == IF get(nvp, Channel) # <<>>
                   THEN <<<<"C","h","a","n","n","e","l",":"," ">> \o nvp[Channel]>> ELSE <<>>
        address_parts == AddressParts(d, AddressFields)
        address == IF address_parts # <<>>
                   THEN <<<<"A","d","d","r","e","s","s",":"," ">> \o join(<<","," ">>, address_parts)>> ELSE <<>>
    IN  tour \o visitors \o channel \o address

\* line 121 without .strip()
FullNameNoStrip(d) == get(d, FirstName) \o <<" ">> \o get(d, LastName)

\* line 121
FullName(d) == strip(get(d, FirstName) \o <<" ">> \o get(d, LastName))

\* lines 123-132 with the two reserved fields read from the input
BuildRecordReserved(d, nvp) ==
    [name |-> FullName(d),
     email |-> get(d, EmailAddress),
     phone |-> get(d, PhoneNumber),
     dates_requested |-> DateRequested(nvp),
     party_of |-> get(nvp, TotalPeople),
     rsvp_link |-> get(nvp, <<"R","S","V","P"," ","L","i","n","k">>),
     unable |-> get(d, <<"u","n","a","b","l","e">>),
     comments |-> join(<<";"," ">>, CommentsParts(d, nvp))]

\* lines 123-132 with each field looked up in both maps
BuildRecordAnyMap(d, nvp) ==
    [name |-> FullName(d),
     email |-> IF get(d, EmailAddress) # <<>> THEN d[EmailAddress] ELSE get(nvp, EmailAddress),
     phone |-> IF get(d, PhoneNumber) # <<>> THEN d[PhoneNumber] ELSE get(nvp, PhoneNumber),
     dates_requested |-> DateRequested(nvp),
     party_of |-> IF get(nvp, TotalPeople) # <<>> THEN nvp[TotalPeople] ELSE get(d, TotalPeople),
     rsvp_link |-> <<>>,
     unable |-> <<>>,
     comments |-> join(<<";"," ">>, CommentsParts(d, nvp))]

\* lines 123-132
BuildRecord(d, nvp) ==
    [name |-> FullName(d),
     email |-> get(d, EmailAddress),
     phone |-> get(d, PhoneNumber),
     dates_requested |-> DateRequested(nvp),
     party_of |-> get(nvp, TotalPeople),
     rsvp_link |-> <<>>,
     unable |-> <<>>,
     comments |-> join(<<";"," ">>, CommentsParts(d, nvp))]

(***************************************************************************)
(* Inputs.  An input text is up to MaxBlocks blocks of one family joined   *)
(* by line breaks; a block is one or more raw lines.                       *)
(***************************************************************************)
NL == <<"\n">>

\* the three paired date fields: present, present with an empty value, flat only
DateBlocks ==
    { <<"N","a","m","e",":"," ","T","o","u","r"," ","R","e","q","u","e","s","t","e","d"," ","D","a","t","e","\n","V","a","l","u","e",":"," ","2","0","2","4","-","0","5","-","0","1">>,
      <<"N","a","m","e",":"," ","T","o","u","r"," ","R","e","q","u","e","s","t","e","d"," ","D","a","t","e","\n","V","a","l","u","e",":">>,
      <<"N","a","m","e",":"," ","W","h","i","t","e"," ","H","o","u","s","e"," ","D","a","t","e"," ","1","\n","V","a","l","u","e",":"," ","M","a","y"," ","1">>,
      <<"N","a","m","e",":"," ","W","h","i","t","e"," ","H","o","u","s","e"," ","D","a","t","e"," ","1","\n","V","a","l","u","e",":"," ">>,
      <<"N","a","m","e",":"," ","W","h","i","t","e"," ","H","o","u","s","e"," ","D","a","t","e"," ","3","\n","V","a","l","u","e",":"," ","M","a","y"," ","3">>,
      <<"N","a","m","e",":"," ","W","h","i","t","e"," ","H","o","u","s","e"," ","D","a","t","e"," ","3","\n","V","a","l","u","e",":">>,
      <<"T","o","u","r"," ","R","e","q","u","e","s","t","e","d"," ","D","a","t","e",":"," ","M","a","y"," ","9">> }

\* the four comment segments and the five address fields, in both orders
CommentBlocks ==
    { <<"N","a","m","e",":"," ","T","o","u","r","s"," ","R","e","q","u","e","s","t","e","d","\n","V","a","l","u","e",":"," ","W","h","i","t","e"," ","H","o","u","s","e"," ","T","o","u","r">>,
      <<"N","a","m","e",":"," ","N","a","m","e"," ","o","f"," ","V","i","s","i","t","o","r","s","\n","V","a","l","u","e",":"," ","A","l",";"," ","B","o">>,
      <<"N","a","m","e",":"," ","C","h","a","n","n","e","l","\n","V","a","l","u","e",":"," ","O","n","l","i","n","e">>,
      <<"N","a","m","e",":"," ","C","h","a","n","n","e","l","\n","V","a","l","u","e",":"," ","O","n","l","i","n","e","\n","N","a","m","e",":"," ","T","o","u","r","s"," ","R","e","q","u","e","s","t","e","d","\n","V","a","l","u","e",":"," ","W","h","i","t","e"," ","H","o","u","s","e"," ","T","o","u","r">>,
      <<"A","d","d","r","e","s","s","1",":"," ","1","2","3"," ","M","a","i","n"," ","S","t","\n","C","i","t","y",":"," ","S","p","r","i","n","g","f","i","e","l","d">>,
      <<"Z","i","p","C","o","d","e",":"," ","1","2","3","4","5","\n","A","d","d","r","e","s","s","2",":"," ","A","p","t"," ","4">>,
      <<"S","t","a","t","e",":"," "," "," ">>,
      <<"N","a","m","e",":"," ","N","a","m","e"," ","o","f"," ","V","i","s","i","t","o","r","s","\n","V","a","l","u","e",":">> }

\* name, email and phone, as flat lines and as Name/Value pairs
ContactBlocks ==
    { <<"F","i","r","s","t","N","a","m","e",":"," ","A","d","a">>,
      <<"L","a","s","t","N","a","m","e",":"," ","L","o","v","e","l","a","c","e">>,
      <<"F","i","r","s","t","N","a","m","e",":">>,
      <<"L","a","s","t","N","a","m","e",":"," "," ","\r">>,
      <<"f","i","r","s","t","n","a","m","e",":"," ","a","d","a">>,
      <<"E","m","a","i","l","A","d","d","r","e","s","s",":"," ","a","@","b",".","c">>,
      <<"P","h","o","n","e","N","u","m","b","e","r",":"," ","5","5","5","-","0","1","0","0">>,
      <<"N","a","m","e",":"," ","E","m","a","i","l","A","d","d","r","e","s","s","\n","V","a","l","u","e",":"," ","x","@","y",".","z">>,
      <<"N","a","m","e",":"," ","P","h","o","n","e","N","u","m","b","e","r","\n","V","a","l","u","e",":"," ","5","5","5","-","0","1","9","9">> }

\* labels that look like the two reserved output fields
ReservedBlocks ==
    { <<"r","s","v","p","_","l","i","n","k",":"," ","h","t","t","p",":","/","/","r">>,
      <<"R","S","V","P"," ","L","i","n","k",":"," ","h","t","t","p",":","/","/","r">>,
      <<"u","n","a","b","l","e",":"," ","y","e","s">>,
      <<"U","n","a","b","l","e",":"," ","y","e","s">>,
      <<"N","a","m","e",":"," ","r","s","v","p","_","l","i","n","k","\n","V","a","l","u","e",":"," ","h","t","t","p",":","/","/","r">>,
      <<"N","a","m","e",":"," ","R","S","V","P"," ","L","i","n","k","\n","V","a","l","u","e",":"," ","h","t","t","p",":","/","/","r">>,
      <<"N","a","m","e",":"," ","u","n","a","b","l","e","\n","V","a","l","u","e",":"," ","y","e","s">>,
      <<"N","a","m","e",":"," ","U","n","a","b","l","e","\n","V","a","l","u","e",":"," ","y","e","s">> }

\* flat lines: several colons, repeated keys, case, padding, no colon
FlatBlocks ==
    { <<"N","o","t","e",":"," ","s","e","e"," ","h","t","t","p",":","/","/","e","x","a","m","p","l","e",".","c","o","m",":","8","0","8","0">>,
      <<"N","o","t","e",":"," ","o","t","h","e","r">>,
      <<"n","o","t","e",":"," ","l","o","w","e","r">>,
      <<" "," ","N","o","t","e"," "," ",":"," "," ","p","a","d","d","e","d"," "," ","\r">>,
      <<"N","o","t","e",":">>,
      <<"a",":","b",":","c">>,
      <<":">>,
      <<"n","o"," ","c","o","l","o","n"," ","h","e","r","e">>,
      <<>> }

\* Name/Value lines one by one, so that every adjacency occurs
PairBlocks ==
    { <<"N","a","m","e",":"," ","A">>,
      <<"N","a","m","e",":"," ","B">>,
      <<"V","a","l","u","e",":"," ","C">>,
      <<"V","a","l","u","e",":"," ","D">>,
      <<"N","a","m","e",":"," ","T","o","t","a","l"," ","N","u","m","b","e","r"," ","o","f"," ","P","e","o","p","l","e"," ","i","n"," ","P","a","r","t","y">>,
      <<"T","o","t","a","l"," ","N","u","m","b","e","r"," ","o","f"," ","P","e","o","p","l","e"," ","i","n"," ","P","a","r","t","y",":"," ","4">>,
      <<"N","a","m","e",":"," ","N","a","m","e",":"," ","E">>,
      <<"x","N","a","m","e",":"," ","F">>,
      <<" "," "," ">>,
      <<"o","t","h","e","r">> }

Families == {DateBlocks, CommentBlocks, ContactBlocks, ReservedBlocks, FlatBlocks, PairBlocks}

TextsOf(blocks) ==
    {join(NL, bs) : bs \in UNION {[1..n -> blocks] : n \in 0..MaxBlocks}}

ExtractTexts == UNION {TextsOf(blocks) : blocks \in Families}

(***************************************************************************)
(* State.                                                                  *)
(***************************************************************************)
\* browser sessions; each has one request in flight at a time, served by its
\* own thread of the threaded development server (app.run, line 932)
Sessions == {"s1", "s2"}

VARIABLES
    service,            \* processor.service (line 18), "None" or the service built
    spreadsheet_id,     \* processor.spreadsheet_id (line 19), "None" or an ID
    connected,          \* session['connected'] of each session
    sheets,             \* the rows of each spreadsheet in the store
    pc,                 \* position of each session's thread
    route,              \* the handler each thread is running
    raw_data,           \* extract_data: its argument
    lines,              \* extract_data: lines
    data,               \* extract_data: data
    name_value_pairs,   \* extract_data: name_value_pairs
    i,                  \* extract_data: i
    iterations,         \* history: iterations of the scan loop in the current call
    extracted_data,     \* the record extract_data returned / add_to_sheet was given
    new_service,        \* authenticate_with_user_credentials: service
    new_spreadsheet_id, \* authenticate_with_user_credentials: spreadsheet_id argument
    ret,                \* add_to_sheet: how it ended ("True", "False", "raise")
    response,           \* the last response sent: <<session, body>>
    returned,           \* history: the <<text, record>> of every finished extract_data call
    requests            \* number of requests received

processorVars == <<service, spreadsheet_id>>
vars == <<service, spreadsheet_id, connected, sheets, pc, route, raw_data, lines, data,
          name_value_pairs, i, iterations, extracted_data, new_service,
          new_spreadsheet_id, ret, response, returned, requests>>

(***************************************************************************)
(* extract_data, main.py lines 69-132: the steps of one call.              *)
(***************************************************************************)
\* lines 71-84: lines, data, name_value_pairs = {}, i = 0
ExtractEnter(t) ==
    /\ pc[t] = "extract"
    /\ lines' = [lines EXCEPT ![t] = SplitLines(raw_data[t])]
    /\ data' = [data EXCEPT ![t] = ParseBasicFields(SplitLines(raw_data[t]), EmptyDict)]
    /\ name_value_pairs' = [name_value_pairs EXCEPT ![t] = EmptyDict]
    /\ i' = [i EXCEPT ![t] = 0]
    /\ iterations' = [iterations EXCEPT ![t] = 0]
    /\ pc' = [pc EXCEPT ![t] = "scan"]
    /\ UNCHANGED <<service, spreadsheet_id, connected, sheets, route, raw_data,
                   extracted_data, new_service, new_spreadsheet_id, ret, response,
                   returned, requests>>

\* lines 85-90 with name_value_pairs kept on the shared processor
ScanPairShared(t) ==
    /\ pc[t] = "scan"
    /\ i[t] < Len(lines[t])
    /\ IsPairAt(lines[t], i[t])
    /\ name_value_pairs' = [s \in Sessions |->
           DictSet(name_value_pairs[t], PairName(lines[t][i[t] + 1]),
                   PairValue(lines[t][i[t] + 2]))]
    /\ i' = [i EXCEPT ![t] = @ + 2]
    /\ iterations' = [iterations EXCEPT ![t] = @ + 1]
    /\ UNCHANGED <<service, spreadsheet_id, connected, sheets, pc, route, raw_data, lines,
                   data, extracted_data, new_service, new_spreadsheet_id, ret, response,
                   returned, requests>>

\* lines 85-90: the loop test holds and the pair test holds
ScanPair(t) ==
    /\ pc[t] = "scan"
    /\ i[t] < Len(lines[t])
    /\ IsPairAt(lines[t], i[t])
    /\ name_value_pairs' = [name_value_pairs EXCEPT ![t] =
           DictSet(@, PairName(lines[t][i[t] + 1]), PairValue(lines[t][i[t] + 2]))]
    /\ i' = [i EXCEPT ![t] = @ + 2]
    /\ iterations' = [iterations EXCEPT ![t] = @ + 1]
    /\ UNCHANGED <<service, spreadsheet_id, connected, sheets, pc, route, raw_data, lines,
                   data, extracted_data, new_service, new_spreadsheet_id, ret, response,
                   returned, requests>>

\* lines 85-86, 91-92 without i += 1
ScanAdvanceStuck(t) ==
    /\ pc[t] = "scan"
    /\ i[t] < Len(lines[t])
    /\ ~IsPairAt(lines[t], i[t])
    /\ iterations' = [iterations EXCEPT ![t] = @ + 1]
    /\ UNCHANGED <<service, spreadsheet_id, connected, sheets, pc, route, raw_data, lines,
                   data, name_value_pairs, i, extracted_data, new_service,
                   new_spreadsheet_id, ret, response, returned, requests>>

\* lines 85-86, 91-92: the loop test holds and the pair test fails
ScanAdvance(t) ==
    /\ pc[t] = "scan"
    /\ i[t] < Len(lines[t])
    /\ ~IsPairAt(lines[t], i[t])
    /\ i' = [i EXCEPT ![t] = @ + 1]
    /\ iterations' = [iterations EXCEPT ![t] = @ + 1]
    /\ UNCHANGED <<service, spreadsheet_id, connected, sheets, pc, route, raw_data, lines,
                   data, name_value_pairs, extracted_data, new_service,
                   new_spreadsheet_id, ret, response, returned, requests>>

\* lines 85, 94-132: the loop test fails, the record is built and returned
ExtractReturn(t) ==
    /\ pc[t] = "scan"
    /\ ~(i[t] < Len(lines[t]))
    /\ extracted_data' = [extracted_data EXCEPT ![t] =
           BuildRecord(data[t], name_value_pairs[t])]
    /\ returned' = Append(returned,
           <<raw_data[t], BuildRecord(data[t], name_value_pairs[t])>>)
    /\ pc' = [pc EXCEPT ![t] = "extracted"]
    /\ UNCHANGED <<service, spreadsheet_id, connected, sheets, route, raw_data, lines,
                   data, name_value_pairs, i, iterations, new_service, new_spreadsheet_id, ret,
                   response, requests>>

(***************************************************************************)
(* The store and the request inputs.                                       *)
(***************************************************************************)
SheetIds == {"sheetA", "sheetB"}

\* credentials field of a /connect body: absent, not JSON, JSON that is not an
\* object, an object of another type, a service account without its key
\* material, and two usable service accounts
CredentialInputs == {"", "malformed", "not_object", "user_account", "incomplete", "saA", "saB"}
SpreadsheetInputs == {""} \cup SheetIds

\* outcomes of the test read of line 46-49
TestOutcomes == {"ok", "403", "404", "500", "network"}

\* rawData of a /process or /process_and_save body
TextContact == <<"F","i","r","s","t","N","a","m","e",":"," ","A","d","a","\n","N","a","m","e",":"," ","C","h","a","n","n","e","l","\n","V","a","l","u","e",":"," ","O","n","l","i","n","e">>
TextDates == <<"N","a","m","e",":"," ","T","o","u","r"," ","R","e","q","u","e","s","t","e","d"," ","D","a","t","e","\n","V","a","l","u","e",":"," ","M","a","y"," ","1","\n","N","o","t","e",":"," ","a",":","b">>
SysTexts == {TextContact, TextDates}

\* body of a /save request: a full record with one more key, a record lacking 'unable'
SaveFull ==
    [name |-> <<"B","o">>, email |-> <<>>, phone |-> <<"1">>, dates_requested |-> <<>>,
     party_of |-> <<"2">>, rsvp_link |-> <<"r">>, unable |-> <<"u">>, comments |-> <<>>,
     id |-> <<"7">>]
SavePartial ==
    [name |-> <<"C","y">>, email |-> <<>>, phone |-> <<>>, dates_requested |-> <<>>,
     party_of |-> <<>>, rsvp_link |-> <<>>, comments |-> <<>>]
SaveRecords == {SaveFull, SavePartial}

\* total number of requests the model lets the sessions send
MaxRequests == 3

\* lines 164-173 with the email and phone cells exchanged
RowSwapped(rec) ==
    <<rec["name"], rec["phone"], rec["email"], rec["dates_requested"],
      rec["party_of"], rec["rsvp_link"], rec["unable"], rec["comments"]>>

\* lines 164-173: the data row of a record
Row(rec) ==
    <<rec["name"], rec["email"], rec["phone"], rec["dates_requested"],
      rec["party_of"], rec["rsvp_link"], rec["unable"], rec["comments"]>>

RowKeys == {"name", "email", "phone", "dates_requested", "party_of", "rsvp_link",
            "unable", "comments"}

\* values().get(range='A1:H1'): 'values' is present when row 1 has a non-blank cell
HasValues(rows) == rows # <<>> /\ \E c \in DOMAIN rows[1] : rows[1][c] # <<>>

\* lines 30-43: json.loads, the type test, from_service_account_info, build
ParseCredentials(credentials_json) ==
    CASE credentials_json = "malformed" ->
             [ok |-> FALSE, service |-> "None", message |-> "Invalid JSON format in credentials"]
      [] credentials_json = "not_object" ->
             [ok |-> FALSE, service |-> "None", message |-> "Authentication failed"]
      [] credentials_json = "user_account" ->
             [ok |-> FALSE, service |-> "None", message |-> "Invalid credentials: Must be a service account JSON file"]
      [] credentials_json = "incomplete" ->
             [ok |-> FALSE, service |-> "None", message |-> "Authentication failed"]
      [] credentials_json = "saA" ->
             [ok |-> TRUE, service |-> "serviceA", message |-> ""]
      [] credentials_json = "saB" ->
             [ok |-> TRUE, service |-> "serviceB", message |-> ""]

\* lines 59-67: the message of a failed test read
TestMessage(outcome) ==
    CASE outcome = "403" -> "Permission denied"
      [] outcome = "404" -> "Spreadsheet not found"
      [] outcome = "500" -> "Google Sheets API error"
      [] outcome = "network" -> "Authentication failed"

(***************************************************************************)
(* Routes, main.py lines 836-925, and the collaborators they call.         *)
(***************************************************************************)
\* the response a thread sends back to its session
Reply(t, body) == <<t, body>>

CanReceive(t) == pc[t] = "idle" /\ requests < MaxRequests

\* the locals of a finished request
Finish(t) ==
    /\ pc' = [pc EXCEPT ![t] = "idle"]
    /\ route' = [route EXCEPT ![t] = "none"]
    /\ raw_data' = [raw_data EXCEPT ![t] = <<>>]
    /\ lines' = [lines EXCEPT ![t] = <<>>]
    /\ data' = [data EXCEPT ![t] = EmptyDict]
    /\ name_value_pairs' = [name_value_pairs EXCEPT ![t] = EmptyDict]
    /\ i' = [i EXCEPT ![t] = 0]
    /\ iterations' = [iterations EXCEPT ![t] = 0]
    /\ new_service' = [new_service EXCEPT ![t] = "None"]
    /\ new_spreadsheet_id' = [new_spreadsheet_id EXCEPT ![t] = "None"]
    /\ ret' = [ret EXCEPT ![t] = "None"]
    /\ extracted_data' = [extracted_data EXCEPT ![t] = EmptyDict]

\* /logout, lines 836-840
Logout(t) ==
    /\ CanReceive(t)
    /\ requests' = requests + 1
    /\ connected' = [connected EXCEPT ![t] = FALSE]
    /\ response' = Reply(t, "logged out")
    /\ UNCHANGED <<extracted_data, service, spreadsheet_id, sheets, pc, route, raw_data, lines, data,
                   name_value_pairs, i, iterations, new_service, new_spreadsheet_id, ret, returned>>

\* /connect, lines 842-851, and authenticate_with_user_credentials, lines 28-43
ConnectRequest(t, credentials_json, sid) ==
    /\ CanReceive(t)
    /\ requests' = requests + 1
    /\ IF credentials_json = "" \/ sid = ""
       THEN /\ response' = Reply(t, "Missing credentials or spreadsheet ID")
            /\ UNCHANGED <<pc, route, new_service, new_spreadsheet_id>>
       ELSE IF ~ParseCredentials(credentials_json).ok
       THEN /\ response' = Reply(t, ParseCredentials(credentials_json).message)
            /\ UNCHANGED <<pc, route, new_service, new_spreadsheet_id>>
       ELSE /\ UNCHANGED response
            /\ pc' = [pc EXCEPT ![t] = "auth_test"]
            /\ route' = [route EXCEPT ![t] = "connect"]
            /\ new_service' = [new_service EXCEPT ![t] = ParseCredentials(credentials_json).service]
            /\ new_spreadsheet_id' = [new_spreadsheet_id EXCEPT ![t] = sid]
    /\ UNCHANGED <<extracted_data, service, spreadsheet_id, connected, sheets, raw_data, lines, data,
                   name_value_pairs, i, iterations, ret, returned>>

\* lines 45-49 and 57-67, then lines 859-860: the test read of the spreadsheet
AuthTest(t, outcome) ==
    /\ pc[t] = "auth_test"
    /\ IF outcome = "ok"
       THEN /\ pc' = [pc EXCEPT ![t] = "auth_set_service"]
            /\ UNCHANGED <<route, raw_data, lines, data, name_value_pairs, i, iterations,
                           extracted_data, new_service, new_spreadsheet_id, ret, response>>
       ELSE /\ response' = Reply(t, TestMessage(outcome))
            /\ Finish(t)
    /\ UNCHANGED <<service, spreadsheet_id, connected, sheets, returned, requests>>

\* line 52
AuthSetService(t) ==
    /\ pc[t] = "auth_set_service"
    /\ service' = new_service[t]
    /\ pc' = [pc EXCEPT ![t] = "auth_set_spreadsheet_id"]
    /\ UNCHANGED <<spreadsheet_id, connected, sheets, route, raw_data, lines, data,
                   name_value_pairs, i, iterations, extracted_data, new_service, new_spreadsheet_id,
                   ret, response, returned, requests>>

\* lines 53-55, then lines 855-858
AuthSetSpreadsheetId(t) ==
    /\ pc[t] = "auth_set_spreadsheet_id"
    /\ spreadsheet_id' = new_spreadsheet_id[t]
    /\ connected' = [connected EXCEPT ![t] = TRUE]
    /\ response' = Reply(t, "Successfully connected to Google Sheets")
    /\ Finish(t)
    /\ UNCHANGED <<service, sheets, returned, requests>>

\* /process, lines 892-902
ProcessRequest(t, text) ==
    /\ CanReceive(t)
    /\ requests' = requests + 1
    /\ IF text = <<>>
       THEN /\ response' = Reply(t, "No data provided")
            /\ UNCHANGED <<pc, route, raw_data>>
       ELSE /\ UNCHANGED response
            /\ pc' = [pc EXCEPT ![t] = "extract"]
            /\ route' = [route EXCEPT ![t] = "process"]
            /\ raw_data' = [raw_data EXCEPT ![t] = text]
    /\ UNCHANGED <<extracted_data, service, spreadsheet_id, connected, sheets, lines, data,
                   name_value_pairs, i, iterations, new_service, new_spreadsheet_id, ret, returned>>

\* /process, lines 904-907
ProcessRespond(t) ==
    /\ pc[t] = "extracted"
    /\ route[t] = "process"
    /\ response' = Reply(t, "extractedData")
    /\ Finish(t)
    /\ UNCHANGED <<service, spreadsheet_id, connected, sheets, returned, requests>>

\* lines 865-879 without the test of line 875
ProcessAndSaveRequestNoGate(t, text) ==
    /\ CanReceive(t)
    /\ requests' = requests + 1
    /\ IF text = <<>>
       THEN /\ response' = Reply(t, "No data provided")
            /\ UNCHANGED <<pc, route, raw_data>>
       ELSE /\ UNCHANGED response
            /\ pc' = [pc EXCEPT ![t] = "extract"]
            /\ route' = [route EXCEPT ![t] = "process_and_save"]
            /\ raw_data' = [raw_data EXCEPT ![t] = text]
    /\ UNCHANGED <<extracted_data, service, spreadsheet_id, connected, sheets, lines, data,
                   name_value_pairs, i, iterations, new_service, new_spreadsheet_id, ret, returned>>

\* /process_and_save, lines 865-879
ProcessAndSaveRequest(t, text) ==
    /\ CanReceive(t)
    /\ requests' = requests + 1
    /\ IF text = <<>>
       THEN /\ response' = Reply(t, "No data provided")
            /\ UNCHANGED <<pc, route, raw_data>>
       ELSE IF ~connected[t]
       THEN /\ response' = Reply(t, "Not connected to Google Sheets")
            /\ UNCHANGED <<pc, route, raw_data>>
       ELSE /\ UNCHANGED response
            /\ pc' = [pc EXCEPT ![t] = "extract"]
            /\ route' = [route EXCEPT ![t] = "process_and_save"]
            /\ raw_data' = [raw_data EXCEPT ![t] = text]
    /\ UNCHANGED <<extracted_data, service, spreadsheet_id, connected, sheets, lines, data,
                   name_value_pairs, i, iterations, new_service, new_spreadsheet_id, ret, returned>>

\* /save, lines 911-920
SaveRequest(t, body) ==
    /\ CanReceive(t)
    /\ requests' = requests + 1
    /\ IF ~connected[t]
       THEN /\ response' = Reply(t, "Not connected to Google Sheets")
            /\ UNCHANGED <<pc, route, extracted_data>>
       ELSE /\ UNCHANGED response
            /\ extracted_data' = [extracted_data EXCEPT ![t] = body]
            /\ pc' = [pc EXCEPT ![t] = "add_to_sheet"]
            /\ route' = [route EXCEPT ![t] = "save"]
    /\ UNCHANGED <<service, spreadsheet_id, connected, sheets, raw_data, lines, data,
                   name_value_pairs, i, iterations, new_service, new_spreadsheet_id, ret, returned>>

\* add_to_sheet, lines 136-137, entered from line 882 or line 920
AddGuard(t) ==
    /\ \/ pc[t] = "add_to_sheet"
       \/ pc[t] = "extracted" /\ route[t] = "process_and_save"
    /\ IF service = "None" \/ spreadsheet_id = "None"
       THEN /\ ret' = [ret EXCEPT ![t] = "False"]
            /\ pc' = [pc EXCEPT ![t] = "add_returned"]
       ELSE /\ pc' = [pc EXCEPT ![t] = "add_read_header"]
            /\ UNCHANGED ret
    /\ UNCHANGED <<service, spreadsheet_id, connected, sheets, route, raw_data, lines,
                   data, name_value_pairs, i, iterations, extracted_data, new_service,
                   new_spreadsheet_id, response, returned, requests>>

\* lines 140-147 without the try of line 140: a failed read ends the call
AddReadHeaderNoTry(t, outcome) ==
    /\ pc[t] = "add_read_header"
    /\ outcome = "values" => HasValues(sheets[spreadsheet_id])
    /\ outcome = "empty" => ~HasValues(sheets[spreadsheet_id])
    /\ pc' = [pc EXCEPT ![t] = CASE outcome = "empty" -> "add_append_header"
                                  [] outcome = "values" -> "add_append_row"
                                  [] outcome = "error" -> "add_returned"]
    /\ ret' = [ret EXCEPT ![t] = IF outcome = "error" THEN "False" ELSE @]
    /\ UNCHANGED <<service, spreadsheet_id, connected, sheets, route, raw_data, lines,
                   data, name_value_pairs, i, iterations, extracted_data, new_service,
                   new_spreadsheet_id, response, returned, requests>>

\* lines 140-147 and 160-161: the read of A1:H1 returns values, returns none, or fails
AddReadHeader(t, outcome) ==
    /\ pc[t] = "add_read_header"
    /\ outcome = "values" => HasValues(sheets[spreadsheet_id])
    /\ outcome = "empty" => ~HasValues(sheets[spreadsheet_id])
    /\ pc' = [pc EXCEPT ![t] = IF outcome = "empty" THEN "add_append_header"
                                ELSE "add_append_row"]
    /\ UNCHANGED <<service, spreadsheet_id, connected, sheets, route, raw_data, lines,
                   data, name_value_pairs, i, iterations, extracted_data, new_service,
                   new_spreadsheet_id, ret, response, returned, requests>>

\* lines 148-161: the append of the header row succeeds or fails
AddAppendHeader(t, ok) ==
    /\ pc[t] = "add_append_header"
    /\ ok => Len(sheets[spreadsheet_id]) < MaxRows
    /\ sheets' = IF ok THEN [sheets EXCEPT ![spreadsheet_id] = Append(@, Headers)]
                 ELSE sheets
    /\ pc' = [pc EXCEPT ![t] = "add_append_row"]
    /\ UNCHANGED <<service, spreadsheet_id, connected, route, raw_data, lines, data,
                   name_value_pairs, i, iterations, extracted_data, new_service, new_spreadsheet_id,
                   ret, response, returned, requests>>

\* lines 163-184: the row is built (KeyError when a key is missing), then the
\* append succeeds, fails with HttpError, or fails with another exception
AddAppendRow(t, outcome) ==
    /\ pc[t] = "add_append_row"
    /\ outcome = "ok" => Len(sheets[spreadsheet_id]) < MaxRows
    /\ IF ~(RowKeys \subseteq DOMAIN extracted_data[t])
       THEN /\ ret' = [ret EXCEPT ![t] = "raise"]
            /\ UNCHANGED sheets
       ELSE /\ sheets' = IF outcome = "ok"
                         THEN [sheets EXCEPT ![spreadsheet_id] =
                                  Append(@, Row(extracted_data[t]))]
                         ELSE sheets
            /\ ret' = [ret EXCEPT ![t] = CASE outcome = "ok" -> "True"
                                           [] outcome = "HttpError" -> "False"
                                           [] outcome = "Exception" -> "raise"]
    /\ pc' = [pc EXCEPT ![t] = "add_returned"]
    /\ UNCHANGED <<service, spreadsheet_id, connected, route, raw_data, lines, data,
                   name_value_pairs, i, iterations, extracted_data, new_service, new_spreadsheet_id,
                   response, returned, requests>>

\* /process_and_save, lines 884-890
ProcessAndSaveRespond(t) ==
    /\ pc[t] = "add_returned"
    /\ route[t] = "process_and_save"
    /\ response' = Reply(t, CASE ret[t] = "True" -> "extractedData, saved"
             [] ret[t] = "False" -> "extractedData, not saved"
             [] ret[t] = "raise" -> "error")
    /\ Finish(t)
    /\ UNCHANGED <<service, spreadsheet_id, connected, sheets, returned, requests>>

\* /save, lines 920-925
SaveRespond(t) ==
    /\ pc[t] = "add_returned"
    /\ route[t] = "save"
    /\ response' = Reply(t, CASE ret[t] = "True" -> "success"
             [] ret[t] = "False" -> "Failed to save to Google Sheets"
             [] ret[t] = "raise" -> "error")
    /\ Finish(t)
    /\ UNCHANGED <<service, spreadsheet_id, connected, sheets, returned, requests>>

(***************************************************************************)
(* The application: the sessions send requests, the threads interleave.    *)
(***************************************************************************)
Init ==
    /\ service = "None"
    /\ spreadsheet_id = "None"
    /\ connected = [s \in Sessions |-> FALSE]
    /\ sheets = [id \in SheetIds |-> <<>>]
    /\ pc = [s \in Sessions |-> "idle"]
    /\ route = [s \in Sessions |-> "none"]
    /\ raw_data = [s \in Sessions |-> <<>>]
    /\ lines = [s \in Sessions |-> <<>>]
    /\ data = [s \in Sessions |-> EmptyDict]
    /\ name_value_pairs = [s \in Sessions |-> EmptyDict]
    /\ i = [s \in Sessions |-> 0]
    /\ iterations = [s \in Sessions |-> 0]
    /\ extracted_data = [s \in Sessions |-> EmptyDict]
    /\ new_service = [s \in Sessions |-> "None"]
    /\ new_spreadsheet_id = [s \in Sessions |-> "None"]
    /\ ret = [s \in Sessions |-> "None"]
    /\ response = <<"none", "none">>
    /\ returned = <<>>
    /\ requests = 0

Next ==
    \E t \in Sessions :
        \/ Logout(t)
        \/ \E credentials_json \in CredentialInputs, sid \in SpreadsheetInputs :
               ConnectRequest(t, credentials_json, sid)
        \/ \E outcome \in TestOutcomes : AuthTest(t, outcome)
        \/ AuthSetService(t)
        \/ AuthSetSpreadsheetId(t)
        \/ \E text \in SysTexts \cup {<<>>} : ProcessRequest(t, text)
        \/ ProcessRespond(t)
        \/ \E text \in SysTexts \cup {<<>>} : ProcessAndSaveRequest(t, text)
        \/ \E body \in SaveRecords : SaveRequest(t, body)
        \/ ExtractEnter(t)
        \/ ScanPair(t)
        \/ ScanAdvance(t)
        \/ ExtractReturn(t)
        \/ AddGuard(t)
        \/ \E outcome \in {"values", "empty", "error"} : AddReadHeader(t, outcome)
        \/ \E ok \in BOOLEAN : AddAppendHeader(t, ok)
        \/ \E outcome \in {"ok", "HttpError", "Exception"} : AddAppendRow(t, outcome)
        \/ ProcessAndSaveRespond(t)
        \/ SaveRespond(t)

Spec == Init /\ [][Next]_vars

(***************************************************************************)
(* One call of extract_data on a fresh processor, for every input text.    *)
(***************************************************************************)
Caller == "s1"

\* a direct call extract_data(text) on the fresh processor, for any input text
CallExtractData(t) ==
    /\ pc[t] = "idle"
    /\ requests = 0
    /\ pc' = [pc EXCEPT ![t] = "extract"]
    /\ route' = [route EXCEPT ![t] = "extract_data"]
    /\ \E text \in ExtractTexts : raw_data' = [raw_data EXCEPT ![t] = text]
    /\ UNCHANGED <<service, spreadsheet_id, connected, sheets, lines, data,
                   name_value_pairs, i, iterations, extracted_data, new_service,
                   new_spreadsheet_id, ret, response, returned, requests>>

NextExtract ==
    \/ CallExtractData(Caller)
    \/ ExtractEnter(Caller)
    \/ ScanPair(Caller)
    \/ ScanAdvance(Caller)
    \/ ExtractReturn(Caller)

SpecExtract == Init /\ [][NextExtract]_vars

(***************************************************************************)
(* Several users, each with a spreadsheet of their own: every session      *)
(* connects with its own credentials and its own spreadsheet ID.           *)
(***************************************************************************)
OwnCredentials == [s \in Sessions |-> IF s = "s1" THEN "saA" ELSE "saB"]
OwnSpreadsheet == [s \in Sessions |-> IF s = "s1" THEN "sheetA" ELSE "sheetB"]

NextMultiUser ==
    \E t \in Sessions :
        \/ ConnectRequest(t, OwnCredentials[t], OwnSpreadsheet[t])
        \/ \E outcome \in TestOutcomes : AuthTest(t, outcome)
        \/ AuthSetService(t)
        \/ AuthSetSpreadsheetId(t)
        \/ \E text \in SysTexts : ProcessAndSaveRequest(t, text)
        \/ \E body \in SaveRecords : SaveRequest(t, body)
        \/ ExtractEnter(t)
        \/ ScanPair(t)
        \/ ScanAdvance(t)
        \/ ExtractReturn(t)
        \/ AddGuard(t)
        \/ \E outcome \in {"values", "empty", "error"} : AddReadHeader(t, outcome)
        \/ \E ok \in BOOLEAN : AddAppendHeader(t, ok)
        \/ \E outcome \in {"ok", "HttpError", "Exception"} : AddAppendRow(t, outcome)
        \/ ProcessAndSaveRespond(t)
        \/ SaveRespond(t)

SpecMultiUser == Init /\ [][NextMultiUser]_vars

(***************************************************************************)
(* Two sessions that have connected to the same empty spreadsheet, whose   *)
(* reads and appends all succeed, save concurrently.                       *)
(***************************************************************************)
\* the state after /connect of both sessions with credentials saA and sheetA;
\* the requests are counted from here
InitSharedSheet ==
    /\ service = "serviceA"
    /\ spreadsheet_id = "sheetA"
    /\ connected = [s \in Sessions |-> TRUE]
    /\ sheets = [id \in SheetIds |-> <<>>]
    /\ pc = [s \in Sessions |-> "idle"]
    /\ route = [s \in Sessions |-> "none"]
    /\ raw_data = [s \in Sessions |-> <<>>]
    /\ lines = [s \in Sessions |-> <<>>]
    /\ data = [s \in Sessions |-> EmptyDict]
    /\ name_value_pairs = [s \in Sessions |-> EmptyDict]
    /\ i = [s \in Sessions |-> 0]
    /\ iterations = [s \in Sessions |-> 0]
    /\ extracted_data = [s \in Sessions |-> EmptyDict]
    /\ new_service = [s \in Sessions |-> "None"]
    /\ new_spreadsheet_id = [s \in Sessions |-> "None"]
    /\ ret = [s \in Sessions |-> "None"]
    /\ response = Reply("s2", "Successfully connected to Google Sheets")
    /\ returned = <<>>
    /\ requests = 0

NextSharedSheet ==
    \E t \in Sessions :
        \/ \E text \in SysTexts : ProcessAndSaveRequest(t, text)
        \/ SaveRequest(t, SaveFull)
        \/ ExtractEnter(t)
        \/ ScanPair(t)
        \/ ScanAdvance(t)
        \/ ExtractReturn(t)
        \/ AddGuard(t)
        \/ \E outcome \in {"values", "empty"} : AddReadHeader(t, outcome)
        \/ AddAppendHeader(t, TRUE)
        \/ AddAppendRow(t, "ok")
        \/ ProcessAndSaveRespond(t)
        \/ SaveRespond(t)

SpecSharedSheet == InitSharedSheet /\ [][NextSharedSheet]_vars


(***************************************************************************)
(* Properties of extract_data, checked on the call of SpecExtract.         *)
(***************************************************************************)
\* the call has returned
Extracted == pc[Caller] = "extracted"

\* d.get(k, '') written out: the value of a key, the empty string when absent
ValueOrEmpty(d, k) == IF k \in DOMAIN d THEN d[k] ELSE <<>>

\* the characters of the input texts and of the literals the source inserts
Alphabet ==
    UNION {Range(text) : text \in ExtractTexts}
        \cup Range(<<"T","o","u","r",":"," ","V","i","s","i","t","o","r","s",":"," ","C","h","a","n","n","e","l",":"," ","A","d","d","r","e","s","s",":"," ",","," ",";"," ","-"," ">>)

IsString(s) == s \in Seq(Alphabet)

\* the record has the 8 keys, each bound to a string
WellFormedRecord(rec) ==
    /\ DOMAIN rec = RowKeys
    /\ \A k \in RowKeys : IsString(rec[k])

\* C1: for every input text extract_data returns, after at most one
\* iteration of the scan loop per line, a record with exactly the 8 keys, each
\* bound to a string; every iteration of the Name/Value scan loop moves its
\* index strictly forwards and never past the end of lines.
C1_ExtractTerminates ==
    /\ [](Extracted => WellFormedRecord(extracted_data[Caller]))
    /\ [](pc[Caller] = "scan" =>
            /\ iterations[Caller] <= i[Caller]
            /\ i[Caller] <= Len(lines[Caller]))
    /\ [][(pc[Caller] = "scan" /\ iterations'[Caller] > iterations[Caller])
            => i'[Caller] > i[Caller]]_vars

\* a text of three lines, one of them blank, without any ':' has been extracted
C1_Witness ==
    /\ Extracted
    /\ raw_data[Caller] = <<"n","o"," ","c","o","l","o","n"," ","h","e","r","e","\n","\n","n","o"," ","c","o","l","o","n"," ","h","e","r","e">>
    /\ i[Caller] = 2
    /\ \A k \in RowKeys : extracted_data[Caller][k] = <<>>

\* C3: dates_requested is the paired 'Tour Requested Date' when that is
\* non-empty; otherwise "d1 - d3" when 'White House Date 1' and 'White House
\* Date 3' are both non-empty, d1 when only d1 is, and empty in every other case.
C3_DateFallback ==
    Extracted =>
        LET p == name_value_pairs[Caller]
            primary == ValueOrEmpty(p, TourRequestedDate)
            d1 == ValueOrEmpty(p, WhiteHouseDate1)
            d3 == ValueOrEmpty(p, WhiteHouseDate3)
            result == extracted_data[Caller].dates_requested
        IN  /\ primary # <<>> => result = primary
            /\ (primary = <<>> /\ d1 # <<>> /\ d3 # <<>>) => result = d1 \o <<" ","-"," ">> \o d3
            /\ (primary = <<>> /\ d1 # <<>> /\ d3 = <<>>) => result = d1
            /\ (primary = <<>> /\ d1 = <<>>) => result = <<>>
            /\ raw_data[Caller] = <<"N","a","m","e",":"," ","W","h","i","t","e"," ","H","o","u","s","e"," ","D","a","t","e"," ","1","\n","V","a","l","u","e",":"," ","M","a","y"," ","1">>
                   => result = <<"M","a","y"," ","1">>

\* 'Tour Requested Date' present with an empty value, both White House dates set
C3_Witness ==
    /\ Extracted
    /\ TourRequestedDate \in DOMAIN name_value_pairs[Caller]
    /\ name_value_pairs[Caller][TourRequestedDate] = <<>>
    /\ extracted_data[Caller].dates_requested = <<"M","a","y"," ","1"," ","-"," ","M","a","y"," ","3">>

\* the values of seq that are not the empty string, in order
NonEmpty(seq) == SelectSeq(seq, LAMBDA v : v # <<>>)

\* C4: comments is the "; "-join of the segments Tour, Visitors, Channel,
\* Address, in that order, each present iff its source value is non-empty; the
\* Address segment is the ", "-join of the non-empty values of the five address
\* fields in their fixed order; the order of the input lines does not matter.
C4_Comments ==
    Extracted =>
        LET p == name_value_pairs[Caller]
            d == data[Caller]
            Segment(label, v) == IF v # <<>> THEN label \o v ELSE <<>>
            address == join(<<","," ">>, NonEmpty([k \in 1..5 |-> ValueOrEmpty(d, AddressFields[k])]))
            segments == NonEmpty(<<Segment(<<"T","o","u","r",":"," ">>, ValueOrEmpty(p, ToursRequested)),
                                   Segment(<<"V","i","s","i","t","o","r","s",":"," ">>, ValueOrEmpty(p, NameOfVisitors)),
                                   Segment(<<"C","h","a","n","n","e","l",":"," ">>, ValueOrEmpty(p, Channel)),
                                   Segment(<<"A","d","d","r","e","s","s",":"," ">>, address)>>)
        IN  /\ extracted_data[Caller].comments = join(<<";"," ">>, segments)
            /\ raw_data[Caller] = <<"N","a","m","e",":"," ","T","o","u","r","s"," ","R","e","q","u","e","s","t","e","d","\n","V","a","l","u","e",":"," ","W","h","i","t","e"," ","H","o","u","s","e"," ","T","o","u","r","\n","N","a","m","e",":"," ","C","h","a","n","n","e","l","\n","V","a","l","u","e",":"," ","O","n","l","i","n","e","\n","A","d","d","r","e","s","s","1",":"," ","1","2","3"," ","M","a","i","n"," ","S","t","\n","C","i","t","y",":"," ","S","p","r","i","n","g","f","i","e","l","d">>
                   => extracted_data[Caller].comments = <<"T","o","u","r",":"," ","W","h","i","t","e"," ","H","o","u","s","e"," ","T","o","u","r",";"," ","C","h","a","n","n","e","l",":"," ","O","n","l","i","n","e",";"," ","A","d","d","r","e","s","s",":"," ","1","2","3"," ","M","a","i","n"," ","S","t",","," ","S","p","r","i","n","g","f","i","e","l","d">>

\* all four segments, from an input that lists Channel first and ZipCode before Address2
C4_Witness ==
    /\ Extracted
    /\ Len(lines[Caller]) = 8
    /\ lines[Caller][1] = <<"Z","i","p","C","o","d","e",":"," ","1","2","3","4","5">>
    /\ lines[Caller][3] = <<"N","a","m","e",":"," ","C","h","a","n","n","e","l">>
    /\ extracted_data[Caller].comments = <<"T","o","u","r",":"," ","W","h","i","t","e"," ","H","o","u","s","e"," ","T","o","u","r",";"," ","V","i","s","i","t","o","r","s",":"," ","A","l",";"," ","B","o",";"," ","C","h","a","n","n","e","l",":"," ","O","n","l","i","n","e",";"," ","A","d","d","r","e","s","s",":"," ","A","p","t"," ","4",","," ","1","2","3","4","5">>

\* C5: name is FirstName, a space, LastName, trimmed, a missing key counting as
\* empty: empty when both are empty, the one value alone when only one is set.
C5_Name ==
    Extracted =>
        LET first == ValueOrEmpty(data[Caller], FirstName)
            last == ValueOrEmpty(data[Caller], LastName)
            name == extracted_data[Caller].name
        IN  /\ (first = <<>> /\ last = <<>>) => name = <<>>
            /\ (first # <<>> /\ last = <<>>) => name = first
            /\ (first = <<>> /\ last # <<>>) => name = last
            /\ (first # <<>> /\ last # <<>>) => name = first \o <<" ">> \o last
            /\ name # <<" ">>

\* only LastName is present
C5_Witness ==
    /\ Extracted
    /\ FirstName \notin DOMAIN data[Caller]
    /\ extracted_data[Caller].name = <<"L","o","v","e","l","a","c","e">>

\* C6: rsvp_link and unable are the empty string for every input.
C6_ReservedEmpty ==
    Extracted =>
        /\ extracted_data[Caller].rsvp_link = <<>>
        /\ extracted_data[Caller].unable = <<>>

\* the input has a pair named 'RSVP Link' and a flat line 'unable'
C6_Witness ==
    /\ Extracted
    /\ <<"R","S","V","P"," ","L","i","n","k">> \in DOMAIN name_value_pairs[Caller]
    /\ <<"u","n","a","b","l","e">> \in DOMAIN data[Caller]

\* position of the first ':' of a line that has one
FirstColon(line) ==
    CHOOSE p \in DOMAIN line : line[p] = ":" /\ \A q \in 1..(p - 1) : line[q] # ":"
KeyOf(line) == strip(SubSeq(line, 1, FirstColon(line) - 1))
ValueOf(line) == strip(SubSeq(line, FirstColon(line) + 1, Len(line)))

\* C7: the flat map has one key per line containing ':', split at the first
\* ':' only, key and value trimmed, keys case-sensitive; the value stored for a
\* key is that of the last line with this key.
C7_FlatMap ==
    pc[Caller] \in {"scan", "extracted"} =>
        LET ls == lines[Caller]
            d == data[Caller]
            flat == {j \in DOMAIN ls : ":" \in Range(ls[j])}
        IN  /\ \A j \in DOMAIN ls : ls[j] # <<>> /\ ls[j] = strip(ls[j])
            /\ DOMAIN d = {KeyOf(ls[j]) : j \in flat}
            /\ \A j \in flat :
                   (\A m \in flat : m > j => KeyOf(ls[m]) # KeyOf(ls[j]))
                       => d[KeyOf(ls[j])] = ValueOf(ls[j])
            /\ (ls # <<>> /\ ls[Len(ls)] = <<"N","o","t","e",":"," ","s","e","e"," ","h","t","t","p",":","/","/","e","x","a","m","p","l","e",".","c","o","m",":","8","0","8","0">>)
                   => d[<<"N","o","t","e">>] = <<"s","e","e"," ","h","t","t","p",":","/","/","e","x","a","m","p","l","e",".","c","o","m",":","8","0","8","0">>

\* 'Note' occurs twice and in lower case; the last 'Note' line has three colons
C7_Witness ==
    /\ Extracted
    /\ lines[Caller] = <<<<"N","o","t","e",":"," ","o","t","h","e","r">>, <<"n","o","t","e",":"," ","l","o","w","e","r">>, <<"N","o","t","e",":"," ","s","e","e"," ","h","t","t","p",":","/","/","e","x","a","m","p","l","e",".","c","o","m",":","8","0","8","0">>>>
    /\ data[Caller][<<"N","o","t","e">>] = <<"s","e","e"," ","h","t","t","p",":","/","/","e","x","a","m","p","l","e",".","c","o","m",":","8","0","8","0">>
    /\ data[Caller][<<"n","o","t","e">>] = <<"l","o","w","e","r">>

\* C8: the paired map has an entry exactly for each 'Name:' line whose next
\* line starts with 'Value:' (the last such pair of a name gives its value);
\* the scan moves two lines past a matched pair and one line otherwise, and
\* 'Name: A', 'Name: B', 'Value: C' records B -> C only.
C8_PairedMap ==
    /\ [](Extracted =>
            LET ls == lines[Caller]
                p == name_value_pairs[Caller]
                pairs == {j \in 1..(Len(ls) - 1) :
                             startswith(ls[j], NamePrefix) /\ startswith(ls[j + 1], ValuePrefix)}
            IN  /\ DOMAIN p = {PairName(ls[j]) : j \in pairs}
                /\ \A j \in pairs :
                       (\A m \in pairs : m > j => PairName(ls[m]) # PairName(ls[j]))
                           => p[PairName(ls[j])] = PairValue(ls[j + 1])
                /\ ls = <<<<"N","a","m","e",":"," ","A">>, <<"N","a","m","e",":"," ","B">>, <<"V","a","l","u","e",":"," ","C">>>>
                       => (DOMAIN p = {<<"B">>} /\ p[<<"B">>] = <<"C">>))
    /\ [][(pc[Caller] = "scan" /\ pc'[Caller] = "scan") =>
            LET ls == lines[Caller]
                k == i[Caller]
            IN  IF /\ startswith(ls[k + 1], NamePrefix)
                   /\ k + 2 <= Len(ls)
                   /\ startswith(ls[k + 2], ValuePrefix)
                THEN /\ i'[Caller] = k + 2
                     /\ DOMAIN name_value_pairs'[Caller]
                            = DOMAIN name_value_pairs[Caller] \cup {PairName(ls[k + 1])}
                ELSE /\ i'[Caller] = k + 1
                     /\ name_value_pairs'[Caller] = name_value_pairs[Caller]]_vars

\* 'Name: A', 'Name: B', 'Value: C' has been scanned
C8_Witness ==
    /\ Extracted
    /\ lines[Caller] = <<<<"N","a","m","e",":"," ","A">>, <<"N","a","m","e",":"," ","B">>, <<"V","a","l","u","e",":"," ","C">>>>
    /\ DOMAIN name_value_pairs[Caller] = {<<"B">>}

\* C9: email and phone come from the flat map only and party_of from the
\* paired map only, each empty when its key is absent there.
C9_FieldSources ==
    Extracted =>
        LET d == data[Caller]
            p == name_value_pairs[Caller]
            rec == extracted_data[Caller]
            ls == lines[Caller]
        IN  /\ rec.email = ValueOrEmpty(d, EmailAddress)
            /\ rec.phone = ValueOrEmpty(d, PhoneNumber)
            /\ rec.party_of = ValueOrEmpty(p, TotalPeople)
            /\ (\A j \in DOMAIN ls : ":" \in Range(ls[j]) => KeyOf(ls[j]) # EmailAddress)
                   => rec.email = <<>>
            /\ (\A j \in DOMAIN ls : ":" \in Range(ls[j]) => KeyOf(ls[j]) # PhoneNumber)
                   => rec.phone = <<>>
            /\ (\A j \in DOMAIN ls :
                    startswith(ls[j], NamePrefix) => PairName(ls[j]) # TotalPeople)
                   => rec.party_of = <<>>

\* a pair named EmailAddress, and no flat EmailAddress line
C9_Witness ==
    /\ Extracted
    /\ EmailAddress \in DOMAIN name_value_pairs[Caller]
    /\ EmailAddress \notin DOMAIN data[Caller]
    /\ extracted_data[Caller].email = <<>>

(***************************************************************************)
(* Properties of the application, checked on Spec.                         *)
(***************************************************************************)
\* thread t takes a step of extract_data
ExtractStep(t) ==
    /\ pc[t] \in {"extract", "scan"}
    /\ pc'[t] # pc[t] \/ i'[t] # i[t]

\* C2: two extract_data calls with the same text return equal records whatever
\* the sessions did in between, and no step of extract_data changes the
\* processor's service or spreadsheet_id.
C2_ExtractPure ==
    /\ [](\A a, b \in DOMAIN returned :
            returned[a][1] = returned[b][1] => returned[a][2] = returned[b][2])
    /\ [][\A t \in Sessions : ExtractStep(t) => UNCHANGED processorVars]_vars

\* the same text was extracted twice, with a call on another text in between
C2_Witness ==
    /\ Len(returned) = 3
    /\ returned[1][1] = returned[3][1]
    /\ returned[2][1] # returned[1][1]

\* the keys of a record in column order, and the header label of each key
ColumnKeys ==
    <<"name", "email", "phone", "dates_requested", "party_of", "rsvp_link", "unable",
      "comments">>
LabelOf ==
    [name |-> <<"N","a","m","e">>, email |-> <<"E","m","a","i","l">>, phone |-> <<"P","h","o","n","e"," ","N","u","m","b","e","r">>,
     dates_requested |-> <<"D","a","t","e","s"," ","R","e","q","u","e","s","t","e","d">>, party_of |-> <<"P","a","r","t","y"," ","O","f">>,
     rsvp_link |-> <<"R","S","V","P"," ","L","i","n","k">>, unable |-> <<"U","n","a","b","l","e">>, comments |-> <<"C","o","m","m","e","n","t","s">>]

\* thread t appends its data row
AppendsRow(t) ==
    /\ pc[t] = "add_append_row"
    /\ pc'[t] # pc[t]
    /\ sheets' # sheets

\* C10: the data row add_to_sheet appends has exactly 8 cells, the values of
\* name, email, phone, dates_requested, party_of, rsvp_link, unable, comments of
\* its record in this order, each under the header cell of its field.
C10_RowLayout ==
    /\ [](\A id \in SheetIds : \A r \in DOMAIN sheets[id] : Len(sheets[id][r]) = 8)
    /\ [][\A t \in Sessions : AppendsRow(t) =>
            LET rows == sheets'[spreadsheet_id]
                row == rows[Len(rows)]
            IN  /\ sheets' = [sheets EXCEPT ![spreadsheet_id] = Append(@, row)]
                /\ Len(row) = 8
                /\ Len(Headers) = 8
                /\ \A c \in 1..8 :
                       /\ row[c] = extracted_data[t][ColumnKeys[c]]
                       /\ Headers[c] = LabelOf[ColumnKeys[c]]]_vars

\* a sheet holds the header row and under it the row of an extracted record
C10_Witness ==
    \E id \in SheetIds :
        /\ Len(sheets[id]) = 2
        /\ sheets[id][1] = Headers
        /\ sheets[id][2] = <<<<"A","d","a">>, <<>>, <<>>, <<>>, <<>>, <<>>, <<>>, <<"C","h","a","n","n","e","l",":"," ","O","n","l","i","n","e">>>>

(***************************************************************************)
(* Properties of the collaborators, checked on Spec.                       *)
(***************************************************************************)
\* the replies of a failed test read
TestFailureReplies(t) == {Reply(t, TestMessage(outcome)) : outcome \in TestOutcomes \ {"ok"}}

\* C11: no collaborator operation ends in a thrown fault: every add_to_sheet
\* call that has ended returned True or False, whatever failed (a record lacking
\* a key and a failure that is not HttpError included), and a failed
\* authenticate_with_user_credentials call ends with its (False, message) reply.
C11_NoThrownFault ==
    /\ [](\A t \in Sessions : pc[t] = "add_returned" => ret[t] \in {"True", "False"})
    /\ [][\A t \in Sessions :
            pc[t] = "auth_test" /\ pc'[t] = "idle" =>
                response' \in TestFailureReplies(t)]_vars

(***************************************************************************)
(* Every user saves to their own spreadsheet, checked on SpecMultiUser.    *)
(***************************************************************************)
\* C12: with every session connected to a spreadsheet of its own, each data row
\* a session saves is appended to the spreadsheet this session connected to,
\* never to another session's, in every interleaving of the requests.
C12_OwnSpreadsheet ==
    [][\A t \in Sessions :
          AppendsRow(t) =>
              /\ sheets'[OwnSpreadsheet[t]] # sheets[OwnSpreadsheet[t]]
              /\ \A id \in SheetIds \ {OwnSpreadsheet[t]} : sheets'[id] = sheets[id]]_vars

(***************************************************************************)
(* The prefix removal of the paired scan, checked on SpecExtract.          *)
(***************************************************************************)
\* s without its leading prefix, when it starts with it
removeprefix(s, prefix) ==
    IF startswith(s, prefix) THEN SubSeq(s, Len(prefix) + 1, Len(s)) ELSE s

\* C13: a matched pair records the 'Name:' line with only its leading 'Name:'
\* removed, trimmed, under the next line with only its leading 'Value:' removed,
\* trimmed; a later 'Name:' or 'Value:' inside the line stays in the result.
C13_LeadingPrefixOnly ==
    [][(pc[Caller] = "scan" /\ i'[Caller] = i[Caller] + 2) =>
          LET ls == lines[Caller]
              k == i[Caller]
          IN  name_value_pairs'[Caller] =
                  DictSet(name_value_pairs[Caller],
                          strip(removeprefix(ls[k + 1], NamePrefix)),
                          strip(removeprefix(ls[k + 2], ValuePrefix)))]_vars

(***************************************************************************)
(* Properties of add_to_sheet and of the connection gate, checked on Spec. *)
(***************************************************************************)
\* thread t takes the step of program point p
StepsFrom(t, p) == pc[t] = p /\ pc'[t] # p

\* a header row is appended to some spreadsheet
AppendsHeader ==
    \E id \in SheetIds : sheets' = [sheets EXCEPT ![id] = Append(@, Headers)]

\* C14: in a call that passed the guard, the read of A1:H1 and the append of
\* the header never end the call and never set its result, whether they fail
\* or not: the call goes on to the data row append; the result is True exactly
\* when the data row was appended; a header row is appended only by a call
\* whose read of A1:H1 succeeded and returned no values.
C14_HeaderTolerated ==
    [][/\ \A t \in Sessions :
            /\ StepsFrom(t, "add_read_header") =>
                  /\ pc'[t] \in {"add_append_header", "add_append_row"}
                  /\ pc'[t] = "add_append_header" => ~HasValues(sheets[spreadsheet_id])
                  /\ ret'[t] = ret[t]
                  /\ sheets' = sheets
            /\ StepsFrom(t, "add_append_header") =>
                  /\ pc'[t] = "add_append_row"
                  /\ ret'[t] = ret[t]
                  /\ sheets' = sheets \/ AppendsHeader
            /\ StepsFrom(t, "add_append_row") =>
                  /\ pc'[t] = "add_returned"
                  /\ ret'[t] = "True" <=> sheets' # sheets
                  /\ ~AppendsHeader
       /\ AppendsHeader => \E t \in Sessions : StepsFrom(t, "add_append_header")]_vars

\* a call returned True after its row went first into an empty spreadsheet:
\* the read of A1:H1 or the append of the header had failed
C14_Witness ==
    \E t \in Sessions, id \in SheetIds :
        /\ pc[t] = "add_returned"
        /\ ret[t] = "True"
        /\ Len(sheets[id]) = 1
        /\ sheets[id][1] = Row(extracted_data[t])

\* what C15 says of every step but the answer to a request of a session that
\* is not connected: the sheets change only in a save step of a thread whose
\* session is connected; a session becomes connected only by the last step of
\* a successful authenticate_with_user_credentials call of its own /connect and
\* is not connected after its /logout; /process extracts without connection
GateSteps ==
    /\ \A t \in Sessions :
          /\ (~connected[t] /\ connected'[t]) =>
                /\ StepsFrom(t, "auth_set_spreadsheet_id")
                /\ response' = Reply(t, "Successfully connected to Google Sheets")
          /\ (requests' # requests /\ response' = Reply(t, "logged out")) => ~connected'[t]
          /\ (connected[t] /\ ~connected'[t]) => response' = Reply(t, "logged out")
          /\ \A text \in SysTexts :
                ProcessRequest(t, text) => pc'[t] = "extract" /\ sheets' = sheets
          /\ (StepsFrom(t, "extracted") /\ route[t] = "process") =>
                response' = Reply(t, "extractedData") /\ sheets' = sheets
    /\ sheets' # sheets =>
          \E t \in Sessions :
              /\ connected[t]
              /\ route[t] \in {"process_and_save", "save"}
              /\ StepsFrom(t, "add_append_header") \/ StepsFrom(t, "add_append_row")

\* no session is connected at the start, and a thread serves /process_and_save
\* or /save past the connection test only for a connected session
GateStates ==
    /\ requests = 0 => \A t \in Sessions : ~connected[t]
    /\ \A t \in Sessions : route[t] \in {"process_and_save", "save"} => connected[t]

\* the answer to a request of a session that is not connected, as C15 states it
RejectedAs(t, body) ==
    /\ response' = Reply(t, body)
    /\ pc'[t] = "idle"
    /\ sheets' = sheets

\* C15 as stated: every /process_and_save and /save request of a session that is
\* not connected is answered 'Not connected to Google Sheets' and appends
\* nothing; rows are appended only for connected sessions, connected only
\* between a successful /connect and the next /logout; /process needs none.
C15_GateAsStated ==
    /\ [] GateStates
    /\ [][/\ GateSteps
          /\ \A t \in Sessions :
                ~connected[t] =>
                    /\ \A text \in SysTexts \cup {<<>>} :
                          ProcessAndSaveRequest(t, text) =>
                              RejectedAs(t, "Not connected to Google Sheets")
                    /\ \A body \in SaveRecords :
                          SaveRequest(t, body) =>
                              RejectedAs(t, "Not connected to Google Sheets")]_vars

\* C15, amended: as stated, but a /process_and_save request with empty rawData
\* is answered 'No data provided' whether its session is connected or not; with
\* rawData, and for every /save, a session that is not connected is answered
\* 'Not connected to Google Sheets'; in both cases nothing is appended.
C15_Gate ==
    /\ [] GateStates
    /\ [][/\ GateSteps
          /\ \A t \in Sessions :
                /\ ProcessAndSaveRequest(t, <<>>) => RejectedAs(t, "No data provided")
                /\ ~connected[t] =>
                      /\ \A text \in SysTexts :
                            ProcessAndSaveRequest(t, text) =>
                                RejectedAs(t, "Not connected to Google Sheets")
                      /\ \A body \in SaveRecords :
                            SaveRequest(t, body) =>
                                RejectedAs(t, "Not connected to Google Sheets")]_vars

\* after a successful /connect, the third request came from a session that is
\* not connected and was answered 'Not connected to Google Sheets'; nothing
\* was appended
C15_Witness ==
    \E t \in Sessions :
        /\ response = Reply(t, "Not connected to Google Sheets")
        /\ ~connected[t]
        /\ service = "serviceA"
        /\ spreadsheet_id = "sheetA"
        /\ requests = 3
        /\ \A id \in SheetIds : sheets[id] = <<>>

(***************************************************************************)
(* Properties of the shared processor, checked on SpecMultiUser.           *)
(***************************************************************************)
\* the service and the spreadsheet ID of each session's connection
Connections ==
    {<<ParseCredentials(OwnCredentials[s]).service, OwnSpreadsheet[s]>> : s \in Sessions}

\* C16: a failed authenticate_with_user_credentials call leaves service and
\* spreadsheet_id as they were; they are assigned only after a successful test
\* read; and whenever no call stands between its two assignments, the processor
\* holds the service and the spreadsheet_id of one and the same connection.
C16_OneConnection ==
    /\ []((\A t \in Sessions : pc[t] # "auth_set_spreadsheet_id") =>
             <<service, spreadsheet_id>> \in {<<"None", "None">>} \cup Connections)
    /\ [][/\ \A t \in Sessions :
                (StepsFrom(t, "auth_test") /\ pc'[t] = "idle") => UNCHANGED processorVars
          /\ ~UNCHANGED processorVars =>
                \E t \in Sessions : \/ StepsFrom(t, "auth_set_service")
                                    \/ StepsFrom(t, "auth_set_spreadsheet_id")]_vars

(***************************************************************************)
(* The header row, checked on SpecSharedSheet.                             *)
(***************************************************************************)
\* the rows of a spreadsheet that are header rows
HeaderRows(id) == {r \in DOMAIN sheets[id] : sheets[id][r] = Headers}

\* C17: a spreadsheet that starts empty and whose reads and appends all succeed
\* holds at most one header row, whatever the number and the interleaving of
\* the add_to_sheet calls.
C17_HeaderOnce == \A id \in SheetIds : Cardinality(HeaderRows(id)) <= 1

=============================================================================
